---- MODULE Spec2Model ----
(***************************************************************************)
(* The sale and accounting engine of src/coreumNFT.rs (State::whitelist,   *)
(* State::purchase, State::get_balance, State::update_balance,             *)
(* State::mint and the execute dispatcher) as a state machine.             *)
(*                                                                         *)
(* Integer widths are scaled: u64 is U64Bits bits wide and u128 twice      *)
(* that, so that every relation between the two widths the code relies on  *)
(* (a u64 balance times a u8 percentage fits u128) is preserved.           *)
(* The token counter is kept below its width by a guard (CounterCap).      *)
(*                                                                         *)
(* purchase and mint write the fields of self in place and leave through   *)
(* `?` or an early return; the state after a request is the state self is  *)
(* in when the handler returns, whatever it returns.                       *)
(***************************************************************************)
EXTENDS Integers, Sequences, FiniteSets, TLC

\* ------------------------------------------------------------------ bounds
U64Bits == 8
MaxCount == 2
CounterCap == 2
MaxSupply == 3
SaleStart == 2
SaleEnd == 4

\* ------------------------------------------------------------------ widths
M64 == 2 ^ U64Bits
M128 == M64 * M64

\* ------------------------------------------------------------ the universe
Owner == "owner"
Buyers == {"alice", "bob"}
Callers == {Owner} \cup Buyers
\* the protocol address State::new leaves empty
EmptyAddr == ""
Times == {SaleStart - 1, SaleStart, SaleEnd, SaleEnd + 1}
Counts == 0 .. MaxCount

VARIABLES
    is_whitelisted_map,  \* self.is_whitelisted : address -> bool, partial
    balance,             \* self.balance : address -> u64, partial
    current_token_id,    \* self.current_token_id
    nfts,                \* self.nfts : the identifiers pushed by mint
    tokens,              \* the Token Registry: identifier -> owner, partial
    mint_price,          \* self.mint_price (u128)
    protocol_fee,        \* self.protocol_fee (u8)
    treasury_address,    \* self.treasury_address
    protocol_address,    \* self.protocol_address
    max_total_mint,      \* self.max_total_mint
    overflow_checks,     \* the build profile: arithmetic overflow panics or wraps
    sold,                \* history: total count of the purchases that succeeded
    pre,                 \* history: the state the last request started from
    last                 \* history: the last request and its result

vars == <<is_whitelisted_map, balance, current_token_id, nfts, tokens,
          mint_price, protocol_fee, treasury_address, protocol_address,
          max_total_mint, overflow_checks, sold, pre, last>>

config == <<mint_price, protocol_fee, treasury_address, protocol_address,
            max_total_mint, overflow_checks>>

\* the state of the collection registry (src/coreumNFTFactory.rs)
VARIABLES
    contracts,               \* self.contracts : owner -> Vec<address>, partial
    all_collections,         \* self.all_collections
    collection_addresses,    \* self.collection_addresses : name -> address
    collection_base_uris,    \* self.collection_base_uris : address -> uri
    collection_uri_statuses, \* self.collection_uri_statuses : address -> bool
    whitelisted_users,       \* self.whitelisted_users : address -> Vec<user>
    created,                 \* history: <<owner, address>> of every creation
    rpre,                    \* history: the registry before the last request
    rlast                    \* history: the last registry request and its result

regvars == <<contracts, all_collections, collection_addresses,
             collection_base_uris, collection_uri_statuses, whitelisted_users,
             created, rpre, rlast>>

\* ------------------------------------------------------- bounded arithmetic
\* a * b in u128: a panic under overflow checks, the wrapped product without
Mul128(a, b, checks) ==
    IF a * b < M128 THEN [panic |-> FALSE, v |-> a * b]
    ELSE IF checks THEN [panic |-> TRUE, v |-> 0]
    ELSE [panic |-> FALSE, v |-> (a * b) % M128]

\* a - b in u128
Sub128(a, b, checks) ==
    IF a >= b THEN [panic |-> FALSE, v |-> a - b]
    ELSE IF checks THEN [panic |-> TRUE, v |-> 0]
    ELSE [panic |-> FALSE, v |-> (a - b) + M128]

\* x as u64
AsU64(x) == x % M64

\* ------------------------------------------------------------------ ledger
\* may_load(addr).unwrap_or_default()
get_balance(bal, addr) == IF addr \in DOMAIN bal THEN bal[addr] ELSE 0

\* map.save(key, value)
Save(map, key, value) ==
    [k \in DOMAIN map \cup {key} |-> IF k = key THEN value ELSE map[k]]

update_balance(bal, addr, amount) ==
    LET current_balance == get_balance(bal, addr) IN
    IF current_balance + amount < 0
    THEN [err |-> "InsufficientFunds", balance |-> bal]
    ELSE [err |-> "Ok", balance |-> Save(bal, addr, AsU64(current_balance + amount))]

\* --------------------------------------------------------------- whitelist
\* the read path purchase calls; absent the same as false
is_whitelisted(wl, account) == account \in DOMAIN wl /\ wl[account]

\* self.is_whitelisted.update(account, |_| Some(status))
whitelist(wl, account, status) == Save(wl, account, status)

\* ------------------------------------------------------------------- state
\* the part of the state purchase and mint write
Engine(bal, ctid, ids, toks) ==
    [balance |-> bal, current_token_id |-> ctid, nfts |-> ids, tokens |-> toks]

Current == Engine(balance, current_token_id, nfts, tokens)

\* -------------------------------------------------------------------- mint
\* mint without the counter advance of line 190
mintNoAdvance(st, recipient, registry_ok) ==
    IF ~registry_ok
    THEN [err |-> "MintFailed", st |-> st]
    ELSE [err |-> "Ok",
          st |-> Engine(st.balance,
                        st.current_token_id,
                        Append(st.nfts, st.current_token_id),
                        Save(st.tokens, st.current_token_id, recipient))]

\* one call of State::mint; registry_ok is the outcome of the Token
\* Registry's mint, the `?` of line 187 returning before any write.
\* The Ok(()) of line 194 is taken as the value mint returns; the
\* unimplemented!() left after it is not part of the model.
mint(st, recipient, registry_ok) ==
    LET token_id == st.current_token_id IN
    IF ~registry_ok
    THEN [err |-> "MintFailed", st |-> st]
    ELSE [err |-> "Ok",
          st |-> Engine(st.balance,
                        st.current_token_id + 1,
                        Append(st.nfts, token_id),
                        Save(st.tokens, token_id, recipient))]

\* for _ in 0..count { self.mint(..)? }: calls i..count, the fail_at-th
\* call (0: none) failing in the Token Registry
RECURSIVE MintLoop(_, _, _, _, _)
MintLoop(st, recipient, i, count, fail_at) ==
    IF i > count THEN [err |-> "Ok", st |-> st]
    ELSE LET r == mint(st, recipient, i # fail_at) IN
         IF r.err # "Ok" THEN r
         ELSE MintLoop(r.st, recipient, i + 1, count, fail_at)

\* ---------------------------------------------------------------- purchase
\* the window check with the boundary instants shut out
SaleNotActiveStrict(now) == now <= SaleStart \/ now >= SaleEnd

\* now < self.sale_start_time || now > self.sale_end_time
SaleNotActive(now) == now < SaleStart \/ now > SaleEnd

\* the fee with the division done before the multiplication
ProtocolFeeAmountDivFirst(total_cost, fee, checks) ==
    LET m == Mul128(total_cost \div 100, fee, checks) IN
    [panic |-> m.panic, v |-> m.v]

\* (total_cost * (self.protocol_fee as u128)) / 100
ProtocolFeeAmount(total_cost, fee, checks) ==
    LET m == Mul128(total_cost, fee, checks) IN
    [panic |-> m.panic, v |-> m.v \div 100]

\* total_cost - protocol_fee_amount
TreasuryAmount(total_cost, protocol_fee_amount, checks) ==
    Sub128(total_cost, protocol_fee_amount, checks)

\* lines 147-151: the three ledger writes and the counter advance
ApplyPurchase(st, sender, count, total_cost, protocol_fee_amount, treasury_amount) ==
    LET b1 == update_balance(st.balance, sender, 0 - total_cost)
        b2 == update_balance(b1.balance, protocol_address, AsU64(protocol_fee_amount))
        b3 == update_balance(b2.balance, treasury_address, AsU64(treasury_amount))
    IN  IF b1.err # "Ok" THEN [err |-> b1.err, st |-> st]
        ELSE IF b2.err # "Ok"
             THEN [err |-> b2.err,
                   st |-> Engine(b1.balance, st.current_token_id, st.nfts, st.tokens)]
        ELSE IF b3.err # "Ok"
             THEN [err |-> b3.err,
                   st |-> Engine(b2.balance, st.current_token_id, st.nfts, st.tokens)]
        ELSE [err |-> "Ok",
              st |-> Engine(b3.balance, st.current_token_id + count, st.nfts, st.tokens)]

\* the two checks in the other order
PrecheckWindowFirst(sender, now) ==
    IF SaleNotActive(now) THEN "SaleNotActive"
    ELSE IF ~is_whitelisted(is_whitelisted_map, sender) THEN "Unauthorized"
    ELSE "Ok"

\* lines 124-133: the eligibility check, then the window check
Precheck(sender, now) ==
    IF ~is_whitelisted(is_whitelisted_map, sender) THEN "Unauthorized"
    ELSE IF SaleNotActive(now) THEN "SaleNotActive"
    ELSE "Ok"

\* the funds check refusing a cost equal to the balance
FundsShortOrEqual(total_cost, sender_balance) == total_cost >= sender_balance

\* total_cost > self.get_balance(&sender)?
FundsShort(total_cost, sender_balance) == total_cost > sender_balance

\* the result of a purchase: its error, the state self is left in, and the
\* amounts it computed
Result(e, st, tc, pfa, ta) ==
    [err |-> e, st |-> st, total_cost |-> tc,
     protocol_fee_amount |-> pfa, treasury_amount |-> ta]

\* State::purchase(count, sender) at block time now
purchase(st, count, sender, now, fail_at) ==
    IF Precheck(sender, now) # "Ok"
    THEN Result(Precheck(sender, now), st, 0, 0, 0)
    ELSE
    LET total_cost == Mul128(mint_price, count, overflow_checks) IN
    IF total_cost.panic
    THEN Result("Panic", st, 0, 0, 0)
    ELSE IF FundsShort(total_cost.v, get_balance(st.balance, sender))
    THEN Result("InsufficientFunds", st, total_cost.v, 0, 0)
    ELSE
    LET protocol_fee_amount ==
            ProtocolFeeAmount(total_cost.v, protocol_fee, overflow_checks)
        treasury_amount ==
            TreasuryAmount(total_cost.v, protocol_fee_amount.v, overflow_checks)
    IN
    IF protocol_fee_amount.panic \/ treasury_amount.panic
    THEN Result("Panic", st, total_cost.v, 0, 0)
    ELSE
    LET applied == ApplyPurchase(st, sender, count, total_cost.v,
                                 protocol_fee_amount.v, treasury_amount.v)
    IN
    IF applied.err # "Ok"
    THEN Result(applied.err, applied.st, total_cost.v,
                protocol_fee_amount.v, treasury_amount.v)
    ELSE
    LET minted == MintLoop(applied.st, sender, 1, count, fail_at) IN
    Result(minted.err, minted.st, total_cost.v,
           protocol_fee_amount.v, treasury_amount.v)

\* ----------------------------------------------------------------- execute
\* the state a request starts from
Snapshot ==
    [balance |-> balance, current_token_id |-> current_token_id, nfts |-> nfts,
     tokens |-> tokens, is_whitelisted_map |-> is_whitelisted_map]

Request(op, sender, address, status, count, now, r, fail_at) ==
    [op |-> op, sender |-> sender, address |-> address, status |-> status,
     count |-> count, now |-> now, err |-> r.err,
     total_cost |-> r.total_cost,
     protocol_fee_amount |-> r.protocol_fee_amount,
     treasury_amount |-> r.treasury_amount,
     failed_at |-> IF r.err = "MintFailed" THEN fail_at ELSE 0]

\* the outcomes of the Token Registry a purchase can meet: none of its
\* mint calls failing (0) or, when the purchase gets to minting, the k-th
RegistryOutcomes(count, sender, now) ==
    IF purchase(Current, count, sender, now, 0).err = "Ok" THEN 0 .. count ELSE {0}

\* ExecuteMsg::Purchase { count }
ExecutePurchase ==
    \E sender \in Buyers, count \in Counts, now \in Times :
      \E fail_at \in RegistryOutcomes(count, sender, now) :
        /\ current_token_id <= CounterCap
        /\ LET r == purchase(Current, count, sender, now, fail_at)
           IN  /\ balance' = r.st.balance
               /\ current_token_id' = r.st.current_token_id
               /\ nfts' = r.st.nfts
               /\ tokens' = r.st.tokens
               /\ pre' = Snapshot
               /\ sold' = IF r.err = "Ok" THEN sold + count ELSE sold
               /\ last' = Request("purchase", sender, sender, FALSE, count, now, r, fail_at)
        /\ UNCHANGED <<is_whitelisted_map, config>>
        /\ UNCHANGED regvars

\* the owner check left out
WhitelistAuthAnyone(caller) == "Ok"

\* if self.owner != info.sender { return Err(Unauthorized) }
WhitelistAuth(caller) == IF Owner # caller THEN "Unauthorized" ELSE "Ok"

\* ExecuteMsg::Whitelist { address, status }
ExecuteWhitelist ==
    \E caller \in Callers, address \in Buyers, status \in BOOLEAN :
        /\ current_token_id <= CounterCap
        /\ LET err == WhitelistAuth(caller)
               r == Result(err, Current, 0, 0, 0)
           IN  /\ is_whitelisted_map' =
                     IF err = "Ok"
                     THEN whitelist(is_whitelisted_map, address, status)
                     ELSE is_whitelisted_map
               /\ pre' = Snapshot
               /\ last' = Request("whitelist", caller, address, status, 0, 0, r, 0)
        /\ UNCHANGED <<balance, current_token_id, nfts, tokens, sold, config>>
        /\ UNCHANGED regvars

\* ------------------------------------------------------------------- Init
NoEntries == [k \in {} |-> 0]

Fund(bal, addr, amount) == IF amount = 0 THEN bal ELSE Save(bal, addr, amount)

\* a price whose double exceeds u128
BigPrice == M128 \div 2

\* where the proceeds go and the ledger a sale starts from: the treasury
\* the protocol address itself, a buyer, or an account of its own that is
\* new to the ledger or one unit short of the u64 maximum
Deployments ==
    { [treasury_address |-> EmptyAddr,
       balance |-> Fund(Fund(NoEntries, "alice", 250), "bob", 100)],
      [treasury_address |-> "alice",
       balance |-> Fund(NoEntries, "alice", 250)],
      [treasury_address |-> "t",
       balance |-> Fund(Fund(NoEntries, "alice", 250), "bob", 100)],
      [treasury_address |-> "t",
       balance |-> Fund(Fund(Fund(NoEntries, "alice", 250), "bob", 100), "t", M64 - 1)] }

\* price, fee percentage and build profile; the profile is varied where
\* the arithmetic of purchase can overflow and fixed where it cannot
Configs ==
    [mint_price : {7}, protocol_fee : {33, 100}, overflow_checks : {TRUE}]
    \cup [mint_price : {100}, protocol_fee : {0, 10}, overflow_checks : {TRUE}]
    \cup [mint_price : {BigPrice}, protocol_fee : {10}, overflow_checks : BOOLEAN]

\* ---------------------------------------------------------------- registry
\* The collection registry of src/coreumNFTFactory.rs.
MaxCollections == 2
MaxListLen == 1

RegistryOwner == "owner"
RegistryCallers == {RegistryOwner, "alice"}
\* the addresses create_collection can return
CollectionAddrs == {"c1", "c2"}
\* collection names: "n1" has an address mapping, "nx" has none
CollectionNames == {"n1", "nx"}
Uris == {"u1", "u2"}
Users == {"alice", "bob"}

\* the part of the registry its handlers write
Registry(cs, all, uris, statuses, wl) ==
    [contracts |-> cs, all_collections |-> all, collection_base_uris |-> uris,
     collection_uri_statuses |-> statuses, whitelisted_users |-> wl]

CurrentRegistry ==
    Registry(contracts, all_collections, collection_base_uris,
             collection_uri_statuses, whitelisted_users)

\* may_load(key).unwrap_or_default() of a map of vectors
LoadVec(map, key) == IF key \in DOMAIN map THEN map[key] ELSE <<>>

\* store_collection keeping only the newest address of an owner
store_collection_overwrite(reg, owner, collection) ==
    Registry(Save(reg.contracts, owner, <<collection>>),
             Append(reg.all_collections, collection),
             reg.collection_base_uris, reg.collection_uri_statuses,
             reg.whitelisted_users)

\* store_collection without the push to all_collections
store_collection_no_global(reg, owner, collection) ==
    Registry(Save(reg.contracts, owner,
                  LoadVec(reg.contracts, owner) \o <<collection>>),
             reg.all_collections,
             reg.collection_base_uris, reg.collection_uri_statuses,
             reg.whitelisted_users)

\* State::store_collection
store_collection(reg, owner, collection) ==
    LET owner_collections == LoadVec(reg.contracts, owner)
        new_collections == owner_collections \o <<collection>>
    IN  Registry(Save(reg.contracts, owner, new_collections),
                 Append(reg.all_collections, collection),
                 reg.collection_base_uris, reg.collection_uri_statuses,
                 reg.whitelisted_users)

\* State::get_last_deployed: Some(address) as <<address>>, None as <<>>
get_last_deployed(cs, owner) ==
    IF owner \in DOMAIN cs /\ Len(cs[owner]) > 0
    THEN <<cs[owner][Len(cs[owner])]>>
    ELSE <<>>

\* State::get_all_contracts
get_all_contracts(all) == all

\* State::get_deployed
get_deployed(cs, owner) == LoadVec(cs, owner)

\* the lookup answering with an address for every name
get_contract_address_any(addresses, collection) ==
    [err |-> "Ok",
     address |-> IF collection \in DOMAIN addresses
                 THEN addresses[collection] ELSE "c1"]

\* State::get_contract_address
get_contract_address(addresses, collection) ==
    IF collection \in DOMAIN addresses
    THEN [err |-> "Ok", address |-> addresses[collection]]
    ELSE [err |-> "Collection not found", address |-> ""]

\* State::set_base_uri
set_base_uri(reg, collection, uri, status) ==
    LET contract_address == get_contract_address(collection_addresses, collection) IN
    IF contract_address.err # "Ok"
    THEN [err |-> contract_address.err, reg |-> reg]
    ELSE [err |-> "Ok",
          reg |-> Registry(reg.contracts, reg.all_collections,
                           Save(reg.collection_base_uris,
                                contract_address.address, uri),
                           Save(reg.collection_uri_statuses,
                                contract_address.address, status),
                           reg.whitelisted_users)]

\* list.retain(|u| u != user)
RECURSIVE Retain(_, _)
Retain(list, user) ==
    IF list = <<>> THEN <<>>
    ELSE IF Head(list) = user THEN Retain(Tail(list), user)
    ELSE <<Head(list)>> \o Retain(Tail(list), user)

\* the closure of whitelisted_users.update
UpdateWhitelist(wl, address, user, status) ==
    IF address \in DOMAIN wl
    THEN IF status
         THEN Save(wl, address, Append(wl[address], user))
         ELSE Save(wl, address, Retain(wl[address], user))
    ELSE Save(wl, address, <<user>>)

\* State::set_whitelist
set_whitelist(reg, collection, user, status) ==
    LET contract_address == get_contract_address(collection_addresses, collection) IN
    IF contract_address.err # "Ok"
    THEN [err |-> contract_address.err, reg |-> reg]
    ELSE [err |-> "Ok",
          reg |-> Registry(reg.contracts, reg.all_collections,
                           reg.collection_base_uris, reg.collection_uri_statuses,
                           UpdateWhitelist(reg.whitelisted_users,
                                           contract_address.address, user, status))]

RegistryRequest(op, sender, collection, arg, status, err) ==
    [op |-> op, sender |-> sender, collection |-> collection, arg |-> arg,
     status |-> status, err |-> err]

\* a handler's writes and the history of the request
RegistryStep(reg, request) ==
    /\ contracts' = reg.contracts
    /\ all_collections' = reg.all_collections
    /\ collection_base_uris' = reg.collection_base_uris
    /\ collection_uri_statuses' = reg.collection_uri_statuses
    /\ whitelisted_users' = reg.whitelisted_users
    /\ rpre' = CurrentRegistry
    /\ rlast' = request
    /\ UNCHANGED collection_addresses
    /\ UNCHANGED vars

\* create_collection is called by handle and defined nowhere in the
\* repository: it instantiates an engine and returns its address, and stops
\* the request on a malformed configuration
create_collection(valid, address) ==
    IF valid THEN [err |-> "Ok", address |-> address]
    ELSE [err |-> "InvalidConfig", address |-> ""]

\* HandleMsg::CreateCollection
HandleCreateCollection ==
    \E sender \in RegistryCallers, address \in CollectionAddrs,
       valid \in BOOLEAN :
        LET collection_addr == create_collection(valid, address) IN
        /\ Len(all_collections) < MaxCollections
        /\ IF collection_addr.err # "Ok"
           THEN /\ RegistryStep(CurrentRegistry,
                                RegistryRequest("create_collection", sender, "",
                                                "", FALSE, collection_addr.err))
                /\ UNCHANGED created
           ELSE /\ RegistryStep(store_collection(CurrentRegistry, sender,
                                                 collection_addr.address),
                                RegistryRequest("create_collection", sender,
                                                collection_addr.address, "",
                                                FALSE, "Ok"))
                /\ created' = Append(created, <<sender, collection_addr.address>>)

\* HandleMsg::SetBaseURI
HandleSetBaseURI ==
    \E sender \in RegistryCallers, collection \in CollectionNames,
       uri \in Uris, status \in BOOLEAN :
        LET r == set_base_uri(CurrentRegistry, collection, uri, status) IN
        /\ RegistryStep(r.reg, RegistryRequest("set_base_uri", sender,
                                               collection, uri, status, r.err))
        /\ UNCHANGED created

\* HandleMsg::SetWhitelist
HandleSetWhitelist ==
    \E sender \in RegistryCallers, collection \in CollectionNames,
       user \in Users, status \in BOOLEAN :
        LET r == set_whitelist(CurrentRegistry, collection, user, status) IN
        /\ \A a \in DOMAIN whitelisted_users :
              Len(whitelisted_users[a]) <= MaxListLen
        /\ RegistryStep(r.reg, RegistryRequest("set_whitelist", sender,
                                               collection, user, status, r.err))
        /\ UNCHANGED created

\* the registry after instantiate: nothing deployed, the name "n1" mapped
RegistryNew ==
    /\ contracts = NoEntries
    /\ all_collections = <<>>
    /\ collection_addresses = Save(NoEntries, "n1", "c1")
    /\ collection_base_uris = NoEntries
    /\ collection_uri_statuses = NoEntries
    /\ whitelisted_users = NoEntries
    /\ created = <<>>
    /\ rpre = Registry(NoEntries, <<>>, NoEntries, NoEntries, NoEntries)
    /\ rlast = RegistryRequest("none", "", "", "", FALSE, "Ok")

\* State::new
Init ==
    /\ RegistryNew
    /\ is_whitelisted_map = NoEntries
    /\ \E d \in Deployments :
           /\ treasury_address = d.treasury_address
           /\ balance = d.balance
    /\ current_token_id = 0
    /\ nfts = <<>>
    /\ tokens = NoEntries
    /\ \E c \in Configs :
           /\ mint_price = c.mint_price
           /\ protocol_fee = c.protocol_fee
           /\ overflow_checks = c.overflow_checks
    /\ protocol_address = EmptyAddr
    /\ max_total_mint = MaxSupply
    /\ sold = 0
    /\ pre = [balance |-> balance, current_token_id |-> 0, nfts |-> <<>>,
              tokens |-> NoEntries, is_whitelisted_map |-> NoEntries]
    /\ last = [op |-> "none", sender |-> "", address |-> "", status |-> FALSE,
               count |-> 0, now |-> 0, err |-> "Ok", total_cost |-> 0,
               protocol_fee_amount |-> 0, treasury_amount |-> 0, failed_at |-> 0]

Next == ExecutePurchase \/ ExecuteWhitelist

Spec == Init /\ [][Next]_vars

\* the registry on its own, beside an engine no request is sent to
RegInit ==
    /\ Init
    /\ treasury_address = "alice"
    /\ mint_price = 7
    /\ protocol_fee = 33

\* handle: match msg
RegNext == HandleCreateCollection \/ HandleSetBaseURI \/ HandleSetWhitelist

RegSpec == RegInit /\ [][RegNext]_regvars

TypeOK ==
    /\ \A a \in DOMAIN balance : balance[a] \in 0 .. M64 - 1
    /\ current_token_id \in Nat
    /\ sold \in Nat

\* ---------------------------------------------------------------- claims
Accounts == {EmptyAddr, "alice", "bob", "t"}

IsPurchase == last.op = "purchase"

\* the sender's eligibility when the request started: an entry, and true
WasWhitelisted(a) ==
    a \in DOMAIN pre.is_whitelisted_map /\ pre.is_whitelisted_map[a]

InWindow(t) == SaleStart <= t /\ t <= SaleEnd

LedgerAndCounterUnchanged ==
    balance = pre.balance /\ current_token_id = pre.current_token_id

EngineUnchanged ==
    LedgerAndCounterUnchanged /\ nfts = pre.nfts /\ tokens = pre.tokens

\* mint_price * count in the width of total_cost
CostInWidth == (mint_price * last.count) % M128

RECURSIVE SumOver(_, _)
SumOver(bal, S) ==
    IF S = {} THEN 0
    ELSE LET a == CHOOSE x \in S : TRUE
         IN  get_balance(bal, a) + SumOver(bal, S \ {a})

\* C1: after any sequence of purchase requests the counter has advanced by
\* exactly the total count of the purchases that succeeded (it starts at 0).
C1_CounterAdvancesBySold == current_token_id = sold

\* C2: in every reachable state current_token_id <= max_total_mint.
C2_CounterWithinSupply == current_token_id <= max_total_mint

\* C3: a purchase by a whitelisted buyer inside the window with
\* current_token_id + count > max_total_mint fails with SupplyExhausted and
\* leaves ledger, counter and minted tokens unchanged.
C3_SupplyExhaustedNoOp ==
    (/\ IsPurchase
     /\ WasWhitelisted(last.sender)
     /\ InWindow(last.now)
     /\ pre.current_token_id + last.count > max_total_mint)
    => (last.err = "SupplyExhausted" /\ EngineUnchanged)

\* C4: for every purchase that passed its checks, with a fee percentage in
\* 0..100 and count >= 1, total_cost is mint_price * count as computed in
\* its width, protocol_fee_amount = floor(total_cost * protocol_fee / 100),
\* treasury_amount = total_cost - protocol_fee_amount, and the two sum to
\* total_cost exactly.
C4_FeeSplitExact ==
    (/\ IsPurchase
     /\ last.err \in {"Ok", "MintFailed"}
     /\ protocol_fee \in 0 .. 100
     /\ last.count >= 1)
    => /\ last.total_cost = CostInWidth
       /\ last.protocol_fee_amount = (last.total_cost * protocol_fee) \div 100
       /\ last.treasury_amount = last.total_cost - last.protocol_fee_amount
       /\ last.protocol_fee_amount + last.treasury_amount = last.total_cost

\* a purchase went through whose fee was rounded down
C4_Witness ==
    /\ IsPurchase
    /\ last.err = "Ok"
    /\ last.count >= 1
    /\ (last.total_cost * protocol_fee) % 100 # 0
    /\ last.protocol_fee_amount > 0

\* C5: a successful purchase debits the buyer total_cost, credits the
\* protocol address protocol_fee_amount and the treasury treasury_amount,
\* leaves every other balance alone, and so keeps the sum of all balances.
C5_LedgerDelta ==
    (IsPurchase /\ last.err = "Ok" /\ protocol_fee <= 100)
    => /\ \A a \in Accounts :
            get_balance(balance, a) =
                get_balance(pre.balance, a)
                - (IF a = last.sender THEN last.total_cost ELSE 0)
                + (IF a = protocol_address THEN last.protocol_fee_amount ELSE 0)
                + (IF a = treasury_address THEN last.treasury_amount ELSE 0)
       /\ SumOver(balance, Accounts) = SumOver(pre.balance, Accounts)

\* C6 as stated: a purchase outside the window fails with SaleNotActive for
\* any buyer and any count, ledger and counter unchanged.
C6_OutsideWindowSaleNotActive ==
    (IsPurchase /\ ~InWindow(last.now))
    => (last.err = "SaleNotActive" /\ LedgerAndCounterUnchanged)

\* C6 as amended: a purchase outside the window always fails and leaves
\* ledger and counter unchanged, with SaleNotActive when the buyer is
\* whitelisted and Unauthorized when not; a purchase at sale_start_time or
\* at sale_end_time is not rejected by the window check.
C6_OutsideWindowRejected ==
    /\ (IsPurchase /\ ~InWindow(last.now))
       => /\ last.err = IF WasWhitelisted(last.sender)
                        THEN "SaleNotActive" ELSE "Unauthorized"
          /\ LedgerAndCounterUnchanged
    /\ (IsPurchase /\ last.now \in {SaleStart, SaleEnd})
       => last.err # "SaleNotActive"

\* a whitelisted buyer with funds was turned away after the sale closed
C6_Witness ==
    /\ IsPurchase
    /\ WasWhitelisted(last.sender)
    /\ last.now > SaleEnd
    /\ last.count >= 1
    /\ get_balance(pre.balance, last.sender) >= mint_price * last.count
    /\ last.err = "SaleNotActive"

\* C7: a purchase by an address whose whitelist entry is false or missing
\* fails with Unauthorized at any time, for any count and balance, and
\* changes nothing: ledger, counter, minted tokens and whitelist.
C7_NonWhitelistedNoOp ==
    (IsPurchase /\ ~WasWhitelisted(last.sender))
    => /\ last.err = "Unauthorized"
       /\ EngineUnchanged
       /\ is_whitelisted_map = pre.is_whitelisted_map

\* a buyer whose entry was set to false, with funds, inside the window
C7_Witness ==
    /\ IsPurchase
    /\ last.sender \in DOMAIN pre.is_whitelisted_map
    /\ ~pre.is_whitelisted_map[last.sender]
    /\ InWindow(last.now)
    /\ last.count >= 1
    /\ get_balance(pre.balance, last.sender) >= mint_price * last.count
    /\ last.err = "Unauthorized"

\* C8: a purchase by a whitelisted buyer inside the window whose
\* total_cost exceeds the buyer's balance fails with InsufficientFunds and
\* leaves ledger and counter unchanged; the same purchase repeated fails
\* the same way from the same state; a total_cost equal to the balance is
\* not rejected by the funds check.
C8_InsufficientFundsNoOp ==
    (/\ IsPurchase
     /\ WasWhitelisted(last.sender)
     /\ InWindow(last.now)
     /\ last.err # "Panic")
    => LET again == purchase(Current, last.count, last.sender, last.now, 0) IN
       /\ (CostInWidth > get_balance(pre.balance, last.sender))
          => /\ last.err = "InsufficientFunds"
             /\ LedgerAndCounterUnchanged
             /\ again.err = "InsufficientFunds"
             /\ again.st = Current
       /\ (CostInWidth <= get_balance(pre.balance, last.sender))
          => last.err # "InsufficientFunds"

\* a buyer holding some funds, but fewer than the cost, was refused
C8_Witness ==
    /\ IsPurchase
    /\ last.err = "InsufficientFunds"
    /\ get_balance(pre.balance, last.sender) > 0
    /\ last.total_cost > get_balance(pre.balance, last.sender)

\* C9: when a Token Registry mint call inside a purchase fails, the state
\* after the request equals the state before it: no debit, no credit, no
\* counter change, none of the purchase's tokens.
C9_MintFailureRollsBack ==
    (IsPurchase /\ last.err = "MintFailed") => EngineUnchanged

C11_OnlyOwnerWhitelists ==
    /\ (last.op = "whitelist" /\ last.sender # Owner)
       => (last.err = "Unauthorized"
           /\ is_whitelisted_map = pre.is_whitelisted_map)
    /\ \A a \in Accounts \cup Callers :
          (a \in DOMAIN is_whitelisted_map /\ is_whitelisted_map[a])
          => \/ WasWhitelisted(a)
             \/ /\ last.op = "whitelist"
                /\ last.sender = Owner
                /\ last.address = a
                /\ last.status
                /\ last.err = "Ok"

\* a buyer asked to be whitelisted and was refused
C11_Witness ==
    /\ last.op = "whitelist"
    /\ last.sender \in Buyers
    /\ last.address = last.sender
    /\ last.status
    /\ last.err = "Unauthorized"
    /\ ~is_whitelisted(is_whitelisted_map, last.sender)

\* C14: whenever mint_price * count exceeds the width of total_cost the
\* purchase is rejected (with Overflow; the abort of a build that checks
\* its arithmetic is let pass as a rejection here) and changes nothing, so
\* no purchase proceeds with a wrapped total_cost.
C14_OverflowRejected ==
    (/\ IsPurchase
     /\ WasWhitelisted(last.sender)
     /\ InWindow(last.now)
     /\ mint_price * last.count >= M128)
    => (last.err \in {"Overflow", "Panic"} /\ EngineUnchanged)

\* the identifiers c, c+1, ..., c+count-1
Consecutive(c, count) == [i \in 1 .. count |-> c + i - 1]

\* C16: a successful purchase started at current_token_id = c mints the
\* identifiers c .. c+count-1 to the buyer, in that order, and the
\* identifiers minted so far are the gap-free range 0 .. current_token_id-1
\* (the first one is 0).
C16_PreIncrementIdentifiers ==
    /\ (IsPurchase /\ last.err = "Ok")
       => /\ nfts = pre.nfts \o Consecutive(pre.current_token_id, last.count)
          /\ \A i \in 1 .. last.count :
                /\ (pre.current_token_id + i - 1) \in DOMAIN tokens
                /\ tokens[pre.current_token_id + i - 1] = last.sender
    /\ {nfts[i] : i \in 1 .. Len(nfts)} = 0 .. current_token_id - 1

\* the error the stated order of checks gives a request: eligibility,
\* window, capacity, cost overflow, funds; "Ok" when it violates none
FirstViolatedCheck ==
    IF ~WasWhitelisted(last.sender) THEN "Unauthorized"
    ELSE IF ~InWindow(last.now) THEN "SaleNotActive"
    ELSE IF pre.current_token_id + last.count > max_total_mint THEN "SupplyExhausted"
    ELSE IF mint_price * last.count >= M128 THEN "Overflow"
    ELSE IF mint_price * last.count > get_balance(pre.balance, last.sender)
         THEN "InsufficientFunds"
    ELSE "Ok"

\* C17: a purchase that violates a check returns the error of the first
\* violated check in the order eligibility, window, capacity, cost
\* overflow, funds, and writes neither ledger nor counter.
C17_ChecksInOrderBeforeWrites ==
    (IsPurchase /\ FirstViolatedCheck # "Ok")
    => (last.err = FirstViolatedCheck /\ LedgerAndCounterUnchanged)

LedgerAmounts == {0, 1, 100, M64 - 1}

\* C18: every balance is >= 0; a debit greater than the balance fails with
\* InsufficientFunds and leaves the ledger as it was, a debit up to the
\* balance subtracts exactly the amount, and a credit always succeeds and
\* adds exactly the amount.
C18_LedgerDebitCredit ==
    /\ \A a \in DOMAIN balance : balance[a] >= 0
    /\ \A a \in Accounts, amount \in LedgerAmounts :
          LET held == get_balance(balance, a)
              debit == update_balance(balance, a, 0 - amount)
              credit == update_balance(balance, a, amount)
          IN  /\ (amount > held)
                 => (debit.err = "InsufficientFunds" /\ debit.balance = balance)
              /\ (amount <= held)
                 => (debit.err = "Ok"
                     /\ get_balance(debit.balance, a) = held - amount)
              /\ credit.err = "Ok"
              /\ get_balance(credit.balance, a) = held + amount

\* ------------------------------------------------------- registry claims
RECURSIVE CreatedBy(_, _)
\* the addresses the creation history holds for one owner, in order
CreatedBy(log, owner) ==
    IF log = <<>> THEN <<>>
    ELSE IF Head(log)[1] = owner
         THEN <<Head(log)[2]>> \o CreatedBy(Tail(log), owner)
         ELSE CreatedBy(Tail(log), owner)

\* the addresses of the creation history, in order
CreatedAll(log) == [i \in 1 .. Len(log) |-> log[i][2]]

RECURSIVE IsSubseq(_, _)
\* s can be obtained from t by deleting elements
IsSubseq(s, t) ==
    IF s = <<>> THEN TRUE
    ELSE IF t = <<>> THEN FALSE
    ELSE IF Head(s) = Head(t) THEN IsSubseq(Tail(s), Tail(t))
    ELSE IsSubseq(s, Tail(t))

RECURSIVE SumLen(_, _)
\* the total length of the sequences of map over the keys
SumLen(map, keys) ==
    IF keys = {} THEN 0
    ELSE LET k == CHOOSE x \in keys : TRUE
         IN  Len(map[k]) + SumLen(map, keys \ {k})

IsSetRequest == rlast.op \in {"set_base_uri", "set_whitelist"}

\* C12: after any sequence of create_collection requests, deployed(owner) is
\* the addresses that owner created in creation order, last_deployed(owner)
\* is the last of them (none when there is none), and all_contracts() is
\* every created address in global creation order.
C12_DeployedInCreationOrder ==
    /\ \A owner \in RegistryCallers :
          /\ get_deployed(contracts, owner) = CreatedBy(created, owner)
          /\ get_last_deployed(contracts, owner) =
                IF CreatedBy(created, owner) = <<>> THEN <<>>
                ELSE <<CreatedBy(created, owner)[Len(CreatedBy(created, owner))]>>
    /\ get_all_contracts(all_collections) = CreatedAll(created)

\* one owner has created two different collections
C12_Witness ==
    /\ rlast.op = "create_collection" /\ rlast.err = "Ok"
    /\ Len(created) = 2
    /\ created[1][1] = created[2][1]
    /\ created[1][2] # created[2][2]
    /\ get_last_deployed(contracts, created[1][1]) = <<created[2][2]>>

\* C13: set_base_uri and set_whitelist for a collection name with no address
\* mapping fail with the lookup's not-found error and leave base URIs, URI
\* statuses, whitelists and deployed lists unchanged.
C13_UnknownCollectionNoOp ==
    (IsSetRequest /\ rlast.collection \notin DOMAIN collection_addresses)
    => (rlast.err = "Collection not found" /\ CurrentRegistry = rpre)

\* a whitelist request for the unmapped name on a registry that holds entries
C13_Witness ==
    /\ rlast.op = "set_whitelist" /\ rlast.collection = "nx"
    /\ rlast.err = "Collection not found"
    /\ whitelisted_users # NoEntries
    /\ all_collections # <<>>

\* C15: a SetBaseURI or SetWhitelist request from a caller who is not the
\* owner is rejected and changes no stored base URI, URI status or whitelist.
C15_SetRequestsOwnerOnly ==
    (IsSetRequest /\ rlast.sender # RegistryOwner)
    => /\ rlast.err = "Unauthorized"
       /\ collection_base_uris = rpre.collection_base_uris
       /\ collection_uri_statuses = rpre.collection_uri_statuses
       /\ whitelisted_users = rpre.whitelisted_users

\* C19: set_whitelist on a known collection sets the user's eligibility to
\* status whatever the prior state: absent after status=false, present after
\* status=true, and repeating the call changes nothing.
C19_SetWhitelistIdempotent ==
    (rlast.op = "set_whitelist" /\ rlast.err = "Ok")
    => LET address == collection_addresses[rlast.collection]
           list == LoadVec(whitelisted_users, address)
           listed == \E i \in 1 .. Len(list) : list[i] = rlast.arg
       IN  /\ listed <=> rlast.status
           /\ UpdateWhitelist(whitelisted_users, address, rlast.arg,
                              rlast.status) = whitelisted_users

\* C20: each request leaves the per-owner and global sequences unchanged or
\* appends one address to one owner's sequence and to the global sequence;
\* each owner's sequence is a subsequence of the global one and the global
\* length is the sum of the per-owner lengths.
C20_SequencesAppendOnly ==
    /\ \/ /\ contracts = rpre.contracts
          /\ all_collections = rpre.all_collections
       \/ \E owner \in RegistryCallers, address \in CollectionAddrs :
             /\ contracts = Save(rpre.contracts, owner,
                                 LoadVec(rpre.contracts, owner) \o <<address>>)
             /\ all_collections = Append(rpre.all_collections, address)
    /\ \A owner \in DOMAIN contracts : IsSubseq(contracts[owner], all_collections)
    /\ Len(all_collections) = SumLen(contracts, DOMAIN contracts)

\* two owners have each created a collection
C20_Witness ==
    /\ rlast.op = "create_collection" /\ rlast.err = "Ok"
    /\ Len(all_collections) = 2
    /\ \A owner \in RegistryCallers :
          owner \in DOMAIN contracts /\ Len(contracts[owner]) = 1
    /\ all_collections = Append(rpre.all_collections, rlast.collection)

====
